---- MODULE Spec2Model ----
(***************************************************************************)
(* A model of the knowledge-hub API (apps/api): the DynamoDB storage       *)
(* adapter (services/dynamodb.py), the token and password helpers          *)
(* (utils/auth.py), the pydantic request/response models (models/) and the *)
(* request handlers (routers/).                                            *)
(*                                                                         *)
(* A Python dict is a function whose domain is its set of keys, so         *)
(* "k in d" is k \in DOMAIN d and a DynamoDB item may lack attributes.     *)
(* A table is a function from the primary key to the item.  uuid4() is a   *)
(* counter of ids never handed out twice.  The server clock is in seconds. *)
(***************************************************************************)
EXTENDS Integers, Sequences, FiniteSets, TLC

VARIABLES
    users,        \* the users table: user_id -> item
    tags,         \* the tags table: tag_id -> item
    resources,    \* the resources table: resource_id -> item
    nextId,       \* ids handed out so far, per table (uuid4 never repeats)
    clock,        \* the server clock, seconds
    resp,         \* the call observed last and its outcome, where one is observed
    inflight      \* requests being handled concurrently: slot -> its position

vars == <<users, tags, resources, nextId, clock, resp, inflight>>

----------------------------------------------------------------------------
(* Bounds of the model.                                                    *)

MaxUsers == 2
MaxTags == 1
MaxResources == 1
MaxTagIds == 2
MaxTicks == 1
MaxInflight == 2
MaxHours == 27

(* Program constants.                                                      *)
JWT_EXPIRATION_HOURS == 24

(* Inputs the requests are drawn from.                                     *)
FirstNames == {"Ann"}
LastNames == {"Lee"}
Emails == {"a@x.com", "b@x.com"}
Passwords == {"pw1", "pw2"}
Salts == {"s1", "s2"}
TagNames == {"rust", "go"}
Titles == {"X"}
Descriptions == {"Y"}
Urls == {"http://x", "http://y"}
Codes == {"print(1)"}
Authors == {"Knuth"}
ResourceTypes == {"article", "code_snippet", "book", "course"}

TickSeconds == 24 * 3600
Times == {n * TickSeconds : n \in 0..MaxTicks}

UserIds == 1..MaxUsers
TagIds == 1..MaxTags
ResourceIds == 1..MaxResources

----------------------------------------------------------------------------
(* Python values.                                                          *)

\* None, as a lookup's result; "not x" is true of it and of an empty dict.
None == <<>>

\* None, as the value of a string-valued key.
NULL == "None"

Falsy(x) == DOMAIN x = {}

Restrict(d, keys) == [k \in keys |-> d[k]]

\* d.get(k, default)
Get(d, k, default) == IF k \in DOMAIN d THEN d[k] ELSE default

\* Sequences over S of length at most n.
SeqsUpTo(S, n) == UNION {[1..m -> S] : m \in 0..n}

Range(s) == {s[i] : i \in DOMAIN s}

----------------------------------------------------------------------------
(* services/dynamodb.py: item conversion.                                  *)

\* The keys whose values are strings, the only ones compared with None.
StringKeys == {"first_name", "last_name", "email", "title", "description",
               "type", "url", "code", "author", "name"}

IsNone(d, k) == k \in StringKeys /\ d[k] = NULL

\* datetime.isoformat(): the string stored for a datetime.
isoformat(t) == [iso |-> t]

\* datetime.fromisoformat(): the datetime an ISO string denotes.
fromisoformat(s) == [datetime |-> s.iso]

IsIsoString(v) == DOMAIN v = {"iso"}
IsDatetime(v) == DOMAIN v = {"datetime"}

\* serialize_dynamodb_item: None values are dropped, datetimes become strings.
serialize_dynamodb_item(item) ==
    [k \in {j \in DOMAIN item : ~IsNone(item, j)} |->
        IF k = "created_at" /\ IsDatetime(item[k]) THEN isoformat(item[k].datetime)
        ELSE item[k]]

\* deserialize_dynamodb_item: a string under a key ending in _at is parsed.
deserialize_dynamodb_item(item) ==
    [k \in DOMAIN item |->
        IF k = "created_at" /\ IsIsoString(item[k]) THEN fromisoformat(item[k])
        ELSE item[k]]

\* Table.put_item
put_item(table, key, item) ==
    [k \in DOMAIN table \cup {key} |-> IF k = key THEN item ELSE table[k]]

\* Table.delete_item: no error when the key is absent.
delete_item(table, key) == [k \in DOMAIN table \ {key} |-> table[k]]

\* Table.update_item with a SET expression: the named attributes are written,
\* the others kept; an absent key gets a new item holding the key and them.
\* An update that puts the SET values in place of the whole item.
update_item_as_put(table, keyName, key, sets) ==
    put_item(table, key, sets @@ [k \in {keyName} |-> key])

update_item(table, keyName, key, sets) ==
    LET old == IF key \in DOMAIN table THEN table[key]
               ELSE [k \in {keyName} |-> key]
    IN  put_item(table, key, sets @@ old)

----------------------------------------------------------------------------
(* services/dynamodb.py: users.                                            *)

create_user_item(user_id, user_data) ==
    serialize_dynamodb_item(
        [user_id |-> user_id,
         first_name |-> user_data.first_name,
         last_name |-> user_data.last_name,
         email |-> user_data.email,
         password |-> user_data.password])

get_user_by_id(table, user_id) ==
    IF user_id \in DOMAIN table THEN deserialize_dynamodb_item(table[user_id])
    ELSE None

\* The email-index query: Items[0] of the matches, whichever the index lists
\* first, or None.  The set of the results it can give.
get_user_by_email(table, email) ==
    LET items == {table[i] : i \in {j \in DOMAIN table :
                      "email" \in DOMAIN table[j] /\ table[j].email = email}}
    IN  IF items = {} THEN {None}
        ELSE {deserialize_dynamodb_item(it) : it \in items}

\* The SET parts of update_user / update_resource: every key but the primary
\* key whose value is not None.
\* SET parts that also leave out an empty tag_ids list.
update_parts_truthy(keyName, data) ==
    Restrict(data, {k \in DOMAIN data :
                      /\ k # keyName
                      /\ ~IsNone(data, k)
                      /\ ~(k = "tag_ids" /\ data[k] = <<>>)})

\* SET parts that do not leave out the primary key.
update_parts_with_key(keyName, data) ==
    Restrict(data, {k \in DOMAIN data : ~IsNone(data, k)})

update_parts(keyName, data) ==
    Restrict(data, {k \in DOMAIN data : k # keyName /\ ~IsNone(data, k)})

update_user_table(table, user_id, user_data) ==
    LET parts == update_parts("user_id", user_data)
    IN  IF DOMAIN parts = {} THEN table
        ELSE update_item(table, "user_id", user_id, serialize_dynamodb_item(parts))

update_user_item(table, user_id, user_data) ==
    get_user_by_id(update_user_table(table, user_id, user_data), user_id)

list_users_items(table) == {deserialize_dynamodb_item(table[i]) : i \in DOMAIN table}

----------------------------------------------------------------------------
(* services/dynamodb.py: tags.                                             *)

create_tag_item(tag_id, tag_data) ==
    serialize_dynamodb_item([tag_id |-> tag_id, name |-> tag_data.name])

\* One get_item per listed id, in order; an id with no item adds nothing.
RECURSIVE get_tags_by_ids(_, _)
get_tags_by_ids(table, tag_ids) ==
    IF tag_ids = <<>> THEN <<>>
    ELSE LET tag_id == Head(tag_ids)
             rest == get_tags_by_ids(table, Tail(tag_ids))
         IN  IF tag_id \in DOMAIN table
             THEN <<deserialize_dynamodb_item(table[tag_id])>> \o rest
             ELSE rest

list_tags_items(table) == {deserialize_dynamodb_item(table[i]) : i \in DOMAIN table}

----------------------------------------------------------------------------
(* services/dynamodb.py: resources.                                        *)

\* The optional keys copied when the dict has them.
OptionalKeys == {"url", "code", "author"}

create_resource_item(resource_id, resource_data, now) ==
    serialize_dynamodb_item(
        Restrict(resource_data, OptionalKeys \cap DOMAIN resource_data)
        @@ [resource_id |-> resource_id,
            title |-> resource_data.title,
            description |-> resource_data.description,
            type |-> resource_data.type,
            user_id |-> resource_data.user_id,
            tag_ids |-> Get(resource_data, "tag_ids", <<>>),
            created_at |-> isoformat(now)])

get_resource_by_id(table, resource_id) ==
    IF resource_id \in DOMAIN table THEN deserialize_dynamodb_item(table[resource_id])
    ELSE None

update_resource_table(table, resource_id, resource_data) ==
    LET parts == update_parts("resource_id", resource_data)
    IN  IF DOMAIN parts = {} THEN table
        ELSE update_item(table, "resource_id", resource_id,
                         serialize_dynamodb_item(parts))

update_resource_item(table, resource_id, resource_data) ==
    get_resource_by_id(update_resource_table(table, resource_id, resource_data),
                       resource_id)

list_resources_items(table) ==
    {deserialize_dynamodb_item(table[i]) : i \in DOMAIN table}

get_resources_by_user_id(table, user_id) ==
    {deserialize_dynamodb_item(table[i]) :
        i \in {j \in DOMAIN table :
                 "user_id" \in DOMAIN table[j] /\ table[j].user_id = user_id}}

----------------------------------------------------------------------------
(* utils/auth.py: passwords.                                               *)

sha256(password) == <<"sha256", password>>

\* bcrypt.hashpw: the hash holds its salt.
bcrypt_hashpw(digest, salt) == [salt |-> salt, hashed |-> digest]

\* bcrypt.checkpw: hash again with the salt of the stored hash, and compare.
bcrypt_checkpw(digest, hashed_password) ==
    bcrypt_hashpw(digest, hashed_password.salt) = hashed_password

\* hash_password; salt is bcrypt.gensalt()'s draw.
hash_password(password, salt) == bcrypt_hashpw(sha256(password), salt)

\* A check that takes another digest of the password than hash_password.
verify_password_other_digest(plain_password, hashed_password) ==
    bcrypt_checkpw(<<"md5", plain_password>>, hashed_password)

verify_password(plain_password, hashed_password) ==
    bcrypt_checkpw(sha256(plain_password), hashed_password)

----------------------------------------------------------------------------
(* utils/auth.py: tokens.  A well-formed token is its payload and the key  *)
(* that signed it; the other strings are malformed or empty.               *)

ServerKey == "JWT_SECRET_KEY"
OtherKey == "another key"

\* sub of a payload that has none.
NoSub == 0

\* datetime.timestamp() of the naive datetime that datetime.utcnow() gives:
\* the naive value is read as local time, so the result is the Unix time
\* less the UTC offset of the server's local time zone.
naive_timestamp(utc_time, utcoffset) == utc_time - utcoffset

\* create_access_token at the Unix time now on a server whose local time is
\* utcoffset seconds ahead of UTC.
create_access_token(user_id, now, utcoffset) ==
    [form |-> "jwt", key |-> ServerKey, sub |-> user_id,
     exp |-> naive_timestamp(now + JWT_EXPIRATION_HOURS * 3600, utcoffset),
     iat |-> naive_timestamp(now, utcoffset)]

MalformedToken == [form |-> "malformed"]
EmptyToken == [form |-> "empty"]

\* jwt.decode's options.
verify_exp_disabled == FALSE
verify_exp == TRUE

verify_iat_enabled == TRUE
verify_iat == FALSE

\* verify_token: the payload, or the ValueError raised: error is the except
\* clause that raised it, detail its message.  jwt.decode checks the form and
\* the signature (DecodeError), then iat if asked (InvalidTokenError: not
\* yet valid), then exp (ExpiredSignatureError once exp <= now).
verify_token(token, now) ==
    IF token.form = "empty"
    THEN [ok |-> FALSE, error |-> "invalid", detail |-> "Token is empty or invalid"]
    ELSE IF token.form = "malformed"
    THEN [ok |-> FALSE, error |-> "invalid", detail |-> "Token decode error"]
    ELSE IF token.key # ServerKey
    THEN [ok |-> FALSE, error |-> "invalid", detail |-> "Token decode error"]
    ELSE IF verify_iat /\ token.iat > now
    THEN [ok |-> FALSE, error |-> "invalid", detail |-> "Invalid token"]
    ELSE IF verify_exp /\ token.exp <= now
    THEN [ok |-> FALSE, error |-> "expired", detail |-> "Token has expired"]
    ELSE [ok |-> TRUE, payload |-> [sub |-> token.sub, exp |-> token.exp,
                                    iat |-> token.iat]]

----------------------------------------------------------------------------
(* models/user.py, models/tag.py.                                          *)

UserFields == {"user_id", "first_name", "last_name", "email", "password"}

\* User.from_dynamodb_item
User_from_dynamodb_item(item) ==
    [k \in UserFields |-> IF k \in DOMAIN item THEN item[k] ELSE ""]

\* UserResponse: id, names and email; no password field.
UserResponse(id, first_name, last_name, email) ==
    [id |-> id, first_name |-> first_name, last_name |-> last_name,
     email |-> email]

TagModel(id, name) == [id |-> id, name |-> name]

\* get_current_user: the caller, or the 401 raised.
Unauthorized(detail) == [ok |-> FALSE, status |-> 401, detail |-> detail]

\* What a call of the storage adapter gives: the item it returns (None when
\* there is none), or the Exception it raises when DynamoDB answers with a
\* ClientError.
Returned(item) == [raised |-> FALSE, item |-> item]
StorageError == [raised |-> TRUE]

\* get_current_user from what verify_token gave (v) and what get_user_by_id
\* gave (lookup): "except Exception" answers 401 for whatever is raised in
\* the try block, the adapter's Exception included.
get_current_user_from(v, lookup) ==
    IF ~v.ok THEN Unauthorized(v.detail)
    ELSE IF v.payload.sub = NoSub
    THEN Unauthorized("Could not validate credentials")
    ELSE IF lookup.raised
    THEN Unauthorized("Could not validate credentials")
    ELSE IF Falsy(lookup.item)
    THEN Unauthorized("Could not validate credentials")
    ELSE [ok |-> TRUE, user |-> User_from_dynamodb_item(lookup.item)]

\* security = HTTPBearer(): a request with no Authorization header is
\* answered by the library before get_current_user runs, with the status
\* the installed FastAPI release gives: 403 (HTTP_403_FORBIDDEN, "Not
\* authenticated") in the older releases, 401 in the newer ones.
HTTPBearerStatuses == {401, 403}

NoAuthorization(status) == [form |-> "missing", status |-> status]

get_current_user(token, table, now) ==
    IF token.form = "missing"
    THEN [ok |-> FALSE, status |-> token.status, detail |-> "Not authenticated"]
    ELSE
    LET v == verify_token(token, now)
    IN  get_current_user_from(
            v, IF v.ok /\ v.payload.sub # NoSub
               THEN Returned(get_user_by_id(table, v.payload.sub))
               ELSE Returned(None))

----------------------------------------------------------------------------
(* models/resource.py.  A pydantic model keeps the fields it declares and  *)
(* ignores the other keys it is given.                                     *)

ResourceBaseInputFields == {"title", "description", "tag_ids"}

ArticleResourceInputFields == ResourceBaseInputFields \cup {"type", "url"}
CodeSnippetResourceInputFields == ResourceBaseInputFields \cup {"type", "code"}
BookResourceInputFields == ResourceBaseInputFields \cup {"type"}
CourseResourceInputFields == ResourceBaseInputFields \cup {"type"}

InputFields(type) ==
    CASE type = "article" -> ArticleResourceInputFields
      [] type = "code_snippet" -> CodeSnippetResourceInputFields
      [] type = "book" -> BookResourceInputFields
      [] type = "course" -> CourseResourceInputFields

\* ResourceModelInput: the variant the discriminator selects, built from the
\* request body; tag_ids defaults to the empty list.
ResourceModelInput(body) ==
    Restrict(body, InputFields(body.type) \cap DOMAIN body) @@ [tag_ids |-> <<>>]

\* model_dump(exclude=["tag_ids"])
model_dump_exclude_tag_ids(resource) ==
    Restrict(resource, DOMAIN resource \ {"tag_ids"})

ResourceBaseFields == {"id", "title", "description", "user", "tags"}

ArticleResourceFields == ResourceBaseFields \cup {"type", "url"}
CodeSnippetResourceFields == ResourceBaseFields \cup {"type", "code"}
LearningResourceBaseFields == ResourceBaseFields
BookResourceFields == LearningResourceBaseFields \cup {"type"}
CourseResourceFields == LearningResourceBaseFields \cup {"type"}

ArticleResource(kwargs) ==
    Restrict([type |-> "article"] @@ kwargs,
             ArticleResourceFields \cap (DOMAIN kwargs \cup {"type"}))

CodeSnippetResource(kwargs) ==
    Restrict([type |-> "code_snippet"] @@ kwargs,
             CodeSnippetResourceFields \cap (DOMAIN kwargs \cup {"type"}))

BookResource(kwargs) ==
    Restrict([type |-> "book"] @@ kwargs,
             BookResourceFields \cap (DOMAIN kwargs \cup {"type"}))

CourseResource(kwargs) ==
    Restrict([type |-> "course"] @@ kwargs,
             CourseResourceFields \cap (DOMAIN kwargs \cup {"type"}))

----------------------------------------------------------------------------
(* routers/resources.py: _resource_item_to_model.                          *)

HTTPError(status, detail) == [ok |-> FALSE, status |-> status, detail |-> detail]

\* The keys read with item[k]: a missing one raises KeyError.
RequiredItemKeys == {"user_id", "resource_id", "title", "description", "type"}

\* created_at is parsed with value.replace('Z', '+00:00'): a str method.  On a
\* datetime, replace() takes the string for a year and raises TypeError,
\* which the except clause (ValueError, AttributeError) lets through.
created_at_raises(resource_item) ==
    "created_at" \in DOMAIN resource_item /\ IsDatetime(resource_item.created_at)

\* A materializer that goes on without the owner.
owner_missing_ignored(user_item) == FALSE

\* "if not user_item": the owner's record was not found.
owner_missing(user_item) == Falsy(user_item)

resource_item_to_model(resource_item, usersTable, tagsTable) ==
    IF "user_id" \notin DOMAIN resource_item THEN HTTPError(500, "KeyError")
    ELSE
    LET user_item == get_user_by_id(usersTable, resource_item.user_id)
    IN  IF owner_missing(user_item)
        THEN HTTPError(404, "User not found for resource")
        ELSE
        LET user_response == UserResponse(user_item.user_id, user_item.first_name,
                                          user_item.last_name, user_item.email)
            tag_items == IF Get(resource_item, "tag_ids", <<>>) # <<>>
                         THEN get_tags_by_ids(tagsTable, resource_item.tag_ids)
                         ELSE <<>>
            tagModels == [i \in DOMAIN tag_items |->
                            TagModel(tag_items[i].tag_id, tag_items[i].name)]
        IN  IF created_at_raises(resource_item) THEN HTTPError(500, "TypeError")
            ELSE IF ~(RequiredItemKeys \subseteq DOMAIN resource_item)
            THEN HTTPError(500, "KeyError")
            ELSE
            LET base_data == [id |-> resource_item.resource_id,
                              title |-> resource_item.title,
                              description |-> resource_item.description,
                              user |-> user_response,
                              tags |-> tagModels,
                              created_at |-> Get(resource_item, "created_at", None)]
                resource_type == resource_item.type
            IN  IF resource_type = "article"
                THEN [ok |-> TRUE, model |->
                        ArticleResource([url |-> Get(resource_item, "url", "")]
                                        @@ base_data)]
                ELSE IF resource_type = "code_snippet"
                THEN [ok |-> TRUE, model |->
                        CodeSnippetResource([code |-> Get(resource_item, "code", "")]
                                            @@ base_data)]
                ELSE IF resource_type = "book"
                THEN [ok |-> TRUE, model |->
                        BookResource([author |-> Get(resource_item, "author", NULL)]
                                     @@ base_data)]
                ELSE IF resource_type = "course"
                THEN [ok |-> TRUE, model |->
                        CourseResource([author |-> Get(resource_item, "author", NULL)]
                                       @@ base_data)]
                ELSE HTTPError(500, "ValueError")

----------------------------------------------------------------------------
(* The request handlers.  A handler is run on the stored state db (the     *)
(* three tables, the id counters, the clock, and the UTC offset of the     *)
(* server's local time zone) and gives the response and the stored state   *)
(* it leaves.  The server's local time is UTC where no other offset is     *)
(* given.                                                                  *)

DB == [users |-> users, tags |-> tags, resources |-> resources,
       nextId |-> nextId, clock |-> clock, utcoffset |-> 0]

Response(status, body, db) == [status |-> status, body |-> body, db |-> db]

Detail(text) == [detail |-> text]

\* uuid.uuid4(): the next id of the table, and the counter moved on.
uuid4(db, table) == db.nextId[table]
Used(db, table) == [db EXCEPT !.nextId[table] = @ + 1]

----------------------------------------------------------------------------
(* routers/users.py.                                                       *)

\* A response object built from the whole user item.
UserResponseOf_with_password(item) ==
    [id |-> item.user_id, first_name |-> item.first_name,
     last_name |-> item.last_name, email |-> item.email,
     password |-> item.password]

UserResponseOf(item) ==
    UserResponse(item.user_id, item.first_name, item.last_name, item.email)

\* A login that tells an email that is not registered from a wrong password.
login_telling(db, credentials, user_item) ==
    IF Falsy(user_item)
    THEN Response(401, Detail("Email not registered"), db)
    ELSE LET user == User_from_dynamodb_item(user_item)
         IN  IF ~verify_password(credentials.password, user.password)
             THEN Response(401, Detail("Invalid email or password"), db)
             ELSE Response(200,
                           [user |-> UserResponseOf(user),
                            token |-> create_access_token(user.user_id, db.clock,
                                                          db.utcoffset)],
                           db)

\* POST /users/login; user_item is what get_user_by_email gave.
login(db, credentials, user_item) ==
    IF Falsy(user_item)
    THEN Response(401, Detail("Invalid email or password"), db)
    ELSE LET user == User_from_dynamodb_item(user_item)
         IN  IF ~verify_password(credentials.password, user.password)
             THEN Response(401, Detail("Invalid email or password"), db)
             ELSE Response(200,
                           [user |-> UserResponseOf(user),
                            token |-> create_access_token(user.user_id, db.clock, db.utcoffset)],
                           db)

\* A signup that writes whatever the email lookup gave.
create_user_unchecked(db, user, existing_user_item, salt) ==
    LET user_data == [first_name |-> user.first_name,
                      last_name |-> user.last_name,
                      email |-> user.email,
                      password |-> hash_password(user.password, salt)]
        user_item == create_user_item(uuid4(db, "users"), user_data)
        written == [Used(db, "users") EXCEPT
                       !.users = put_item(@, user_item.user_id, user_item)]
    IN  Response(201,
                 [user |-> UserResponseOf(User_from_dynamodb_item(user_item)),
                  token |-> create_access_token(user_item.user_id, db.clock, db.utcoffset)],
                 written)

\* POST /users; existing_user_item is what get_user_by_email gave, salt is
\* the salt hash_password drew.
create_user(db, user, existing_user_item, salt) ==
    IF ~Falsy(existing_user_item)
    THEN Response(400, Detail("Email already registered"), db)
    ELSE LET user_data == [first_name |-> user.first_name,
                           last_name |-> user.last_name,
                           email |-> user.email,
                           password |-> hash_password(user.password, salt)]
             user_item == create_user_item(uuid4(db, "users"), user_data)
             new_user == User_from_dynamodb_item(user_item)
             written == [Used(db, "users") EXCEPT
                            !.users = put_item(@, user_item.user_id, user_item)]
         IN  Response(201,
                      [user |-> UserResponseOf(new_user),
                       token |-> create_access_token(new_user.user_id, db.clock, db.utcoffset)],
                      written)

\* GET /users
list_users(db, token) ==
    LET current_user == get_current_user(token, db.users, db.clock)
    IN  IF ~current_user.ok
        THEN Response(current_user.status, Detail(current_user.detail), db)
        ELSE Response(200,
                      [users |-> {UserResponseOf(item) :
                                     item \in list_users_items(db.users)}],
                      db)

\* GET /users/me from what the get_current_user dependency gave.
get_current_user_info_from(db, current_user) ==
    IF ~current_user.ok
    THEN Response(current_user.status, Detail(current_user.detail), db)
    ELSE Response(200, UserResponseOf(current_user.user), db)

\* GET /users/me
get_current_user_info(db, token) ==
    get_current_user_info_from(db, get_current_user(token, db.users, db.clock))

\* GET /users/{user_id} from what get_user_by_id gave; an exception that no
\* handler catches is answered 500.
get_user_from(db, lookup) ==
    IF lookup.raised THEN Response(500, Detail("Internal Server Error"), db)
    ELSE IF Falsy(lookup.item) THEN Response(404, Detail("User not found"), db)
    ELSE Response(200, UserResponseOf(lookup.item), db)

\* GET /users/{user_id}
get_user(db, user_id) ==
    get_user_from(db, Returned(get_user_by_id(db.users, user_id)))

\* An update that answers 409 when the record is no longer the one it read.
update_user_from_conditional(db, current_user, existing_user_item, user_id, user, email_exists, salt) ==
    LET now_stored == get_user_by_id(db.users, user_id)
        update_data == [first_name |-> user.first_name,
                        last_name |-> user.last_name,
                        email |-> user.email,
                        password |-> hash_password(user.password, salt)]
    IN  IF ~current_user.ok
        THEN Response(current_user.status, Detail(current_user.detail), db)
        ELSE IF Falsy(existing_user_item)
        THEN Response(404, Detail("User not found"), db)
        ELSE IF user.email # existing_user_item.email /\ ~Falsy(email_exists)
        THEN Response(400, Detail("Email already registered"), db)
        ELSE IF Falsy(now_stored) \/ now_stored # existing_user_item
        THEN Response(409, Detail("Conflict"), db)
        ELSE Response(200,
                      UserResponseOf(update_user_item(db.users, user_id, update_data)),
                      [db EXCEPT !.users =
                          update_user_table(@, user_id, update_data)])

\* PUT /users/{user_id} from what its reads gave: current_user is what the
\* get_current_user dependency gave, existing_user_item what get_user_by_id
\* gave, email_exists what get_user_by_email gave.
update_user_from(db, current_user, existing_user_item, user_id, user, email_exists, salt) ==
    IF ~current_user.ok
    THEN Response(current_user.status, Detail(current_user.detail), db)
    ELSE IF Falsy(existing_user_item)
    THEN Response(404, Detail("User not found"), db)
    ELSE IF user.email # existing_user_item.email /\ ~Falsy(email_exists)
    THEN Response(400, Detail("Email already registered"), db)
    ELSE LET update_data == [first_name |-> user.first_name,
                             last_name |-> user.last_name,
                             email |-> user.email,
                             password |-> hash_password(user.password, salt)]
             updated_user_item ==
                 update_user_item(db.users, user_id, update_data)
         IN  Response(200, UserResponseOf(updated_user_item),
                      [db EXCEPT !.users =
                          update_user_table(@, user_id, update_data)])

\* PUT /users/{user_id} handled in one piece.
update_user(db, token, user_id, user, email_exists, salt) ==
    update_user_from(db, get_current_user(token, db.users, db.clock),
                     get_user_by_id(db.users, user_id), user_id, user,
                     email_exists, salt)

\* A delete that also removes the resources the user owns.
delete_user_cascading(db, token, user_id) ==
    IF ~get_current_user(token, db.users, db.clock).ok
    THEN Response(401, Detail("Unauthorized"), db)
    ELSE IF Falsy(get_user_by_id(db.users, user_id))
    THEN Response(404, Detail("User not found"), db)
    ELSE Response(204, None,
                  [db EXCEPT !.users = delete_item(@, user_id),
                             !.resources =
                                 Restrict(@, {r \in DOMAIN @ :
                                                @[r].user_id # user_id})])

\* DELETE /users/{user_id}
delete_user(db, token, user_id) ==
    LET current_user == get_current_user(token, db.users, db.clock)
        user_item == get_user_by_id(db.users, user_id)
    IN  IF ~current_user.ok
        THEN Response(current_user.status, Detail(current_user.detail), db)
        ELSE IF Falsy(user_item)
        THEN Response(404, Detail("User not found"), db)
        ELSE Response(204, None, [db EXCEPT !.users = delete_item(@, user_id)])

----------------------------------------------------------------------------
(* routers/tags.py.                                                        *)

\* POST /tags
create_tag(db, token, tag) ==
    LET current_user == get_current_user(token, db.users, db.clock)
    IN  IF ~current_user.ok
        THEN Response(current_user.status, Detail(current_user.detail), db)
        ELSE LET tag_item == create_tag_item(uuid4(db, "tags"), [name |-> tag.name])
             IN  Response(201, TagModel(tag_item.tag_id, tag_item.name),
                          [Used(db, "tags") EXCEPT
                              !.tags = put_item(@, tag_item.tag_id, tag_item)])

\* GET /tags
list_tags(db) ==
    Response(200,
             [tags |-> {TagModel(item.tag_id, item.name) :
                           item \in list_tags_items(db.tags)}],
             db)

----------------------------------------------------------------------------
(* routers/resources.py.                                                   *)

\* "Validate tags exist": the ids listed and not found, when the lengths
\* differ; the empty list is not looked up.
missing_tag_ids(tagsTable, tag_ids) ==
    IF tag_ids # <<>>
       /\ Len(get_tags_by_ids(tagsTable, tag_ids)) # Len(tag_ids)
    THEN {tag_ids[i] : i \in {j \in DOMAIN tag_ids : tag_ids[j] \notin
            {t.tag_id : t \in Range(get_tags_by_ids(tagsTable, tag_ids))}}}
    ELSE {}

\* A check that rejects no list.
tags_rejected_never(tagsTable, tag_ids) == FALSE

\* A check that rejects a list only when none of its ids is found.
tags_rejected_when_none_found(tagsTable, tag_ids) ==
    tag_ids # <<>> /\ Len(get_tags_by_ids(tagsTable, tag_ids)) = 0

tags_rejected(tagsTable, tag_ids) ==
    tag_ids # <<>> /\ Len(get_tags_by_ids(tagsTable, tag_ids)) # Len(tag_ids)

\* The response of a handler that ends with _resource_item_to_model.
Materialized(status, resource_item, db) ==
    LET m == resource_item_to_model(resource_item, db.users, db.tags)
    IN  IF m.ok THEN Response(status, m.model, db)
        ELSE Response(m.status, Detail(m.detail), db)

\* POST /resources from what the get_current_user dependency gave.
create_resource_from(db, current_user, body) ==
    LET resource == ResourceModelInput(body)
        resource_dict == model_dump_exclude_tag_ids(resource)
    IN  IF ~current_user.ok
        THEN Response(current_user.status, Detail(current_user.detail), db)
        ELSE IF tags_rejected(db.tags, resource.tag_ids)
        THEN Response(400, [detail |-> "Tags do not exist",
                            missing_ids |-> missing_tag_ids(db.tags, resource.tag_ids)],
                      db)
        ELSE LET resource_data ==
                     Restrict(resource_dict, OptionalKeys \cap DOMAIN resource_dict)
                     @@ [title |-> resource_dict.title,
                         description |-> resource_dict.description,
                         type |-> resource_dict.type,
                         user_id |-> current_user.user.user_id,
                         tag_ids |-> resource.tag_ids]
                 resource_item ==
                     create_resource_item(uuid4(db, "resources"), resource_data,
                                          db.clock)
                 written == [Used(db, "resources") EXCEPT !.resources =
                                put_item(@, resource_item.resource_id, resource_item)]
             IN  Materialized(201, resource_item, written)

\* POST /resources handled in one piece.
create_resource(db, token, body) ==
    create_resource_from(db, get_current_user(token, db.users, db.clock), body)

\* asyncio.gather over the items: the models, or the error of the item that
\* fails first in the order the table listed them.
gather_models(items, db) ==
    LET results == {resource_item_to_model(item, db.users, db.tags) : item \in items}
        failed == {r \in results : ~r.ok}
    IN  IF failed = {}
        THEN {Response(200, [resources |-> {r.model : r \in results}], db)}
        ELSE {Response(r.status, Detail(r.detail), db) : r \in failed}

\* GET /resources: the responses it can give.
list_resources(db, token) ==
    LET current_user == get_current_user(token, db.users, db.clock)
    IN  IF ~current_user.ok
        THEN {Response(current_user.status, Detail(current_user.detail), db)}
        ELSE gather_models(list_resources_items(db.resources), db)

\* GET /resources/user/{user_id}: the responses it can give.
get_resources_by_user(db, token, user_id) ==
    LET current_user == get_current_user(token, db.users, db.clock)
        user_item == get_user_by_id(db.users, user_id)
    IN  IF ~current_user.ok
        THEN {Response(current_user.status, Detail(current_user.detail), db)}
        ELSE IF Falsy(user_item)
        THEN {Response(404, Detail("User not found"), db)}
        ELSE gather_models(get_resources_by_user_id(db.resources, user_id), db)

\* PUT /resources/{resource_id} from what the get_current_user dependency
\* and get_resource_by_id gave.
update_resource_from(db, current_user, existing_resource_item, resource_id, body) ==
    LET resource == ResourceModelInput(body)
        resource_dict == model_dump_exclude_tag_ids(resource)
    IN  IF ~current_user.ok
        THEN Response(current_user.status, Detail(current_user.detail), db)
        ELSE IF Falsy(existing_resource_item)
        THEN Response(404, Detail("Resource not found"), db)
        ELSE IF "user_id" \notin DOMAIN existing_resource_item
        THEN Response(500, Detail("KeyError"), db)
        ELSE IF existing_resource_item.user_id # current_user.user.user_id
        THEN Response(403, Detail("You can only update your own resources"), db)
        ELSE IF tags_rejected(db.tags, resource.tag_ids)
        THEN Response(400, [detail |-> "Tags do not exist",
                            missing_ids |-> missing_tag_ids(db.tags, resource.tag_ids)],
                      db)
        ELSE LET update_data ==
                     Restrict(resource_dict, OptionalKeys \cap DOMAIN resource_dict)
                     @@ [title |-> resource_dict.title,
                         description |-> resource_dict.description,
                         type |-> resource_dict.type,
                         tag_ids |-> resource.tag_ids]
                 updated_resource_item ==
                     update_resource_item(db.resources, resource_id, update_data)
                 written == [db EXCEPT !.resources =
                                update_resource_table(@, resource_id, update_data)]
             IN  Materialized(200, updated_resource_item, written)

\* PUT /resources/{resource_id} handled in one piece.
update_resource(db, token, resource_id, body) ==
    update_resource_from(db, get_current_user(token, db.users, db.clock),
                         get_resource_by_id(db.resources, resource_id),
                         resource_id, body)

\* DELETE /resources/{resource_id}
delete_resource(db, token, resource_id) ==
    LET current_user == get_current_user(token, db.users, db.clock)
        existing_resource_item == get_resource_by_id(db.resources, resource_id)
    IN  IF ~current_user.ok
        THEN Response(current_user.status, Detail(current_user.detail), db)
        ELSE IF Falsy(existing_resource_item)
        THEN Response(404, Detail("Resource not found"), db)
        ELSE IF "user_id" \notin DOMAIN existing_resource_item
        THEN Response(500, Detail("KeyError"), db)
        ELSE IF existing_resource_item.user_id # current_user.user.user_id
        THEN Response(403, Detail("You can only delete your own resources"), db)
        ELSE Response(204, None,
                      [db EXCEPT !.resources = delete_item(@, resource_id)])

----------------------------------------------------------------------------
(* The requests the callers send.                                          *)

LoginRequests == [email : Emails, password : Passwords]

UserModels == [first_name : FirstNames, last_name : LastNames,
               email : Emails, password : Passwords]

TagModels == [name : TagNames]

\* The tag ids a caller may list: those uuid4 can give, and one it never gives.
MissingTagId == MaxTags + 1
ListedTagIds == TagIds \cup {MissingTagId}

TagIdLists == SeqsUpTo(ListedTagIds, MaxTagIds)

CommonBodies == [title : Titles, description : Descriptions, tag_ids : TagIdLists]

\* The variant payloads; a book or a course may name its author.
VariantBodies ==
    {[type |-> "article", url |-> u] @@ c : u \in Urls, c \in CommonBodies}
    \cup {[type |-> "code_snippet", code |-> s] @@ c : s \in Codes, c \in CommonBodies}
    \cup {[type |-> t] @@ c : t \in {"book", "course"}, c \in CommonBodies}
    \cup {[type |-> t, author |-> a] @@ c :
            t \in {"book", "course"}, a \in Authors, c \in CommonBodies}

\* A payload that also carries a user_id of the caller's choosing.
OwnerOverrideBodies ==
    {[user_id |-> u] @@ b :
        u \in UserIds,
        b \in {v \in VariantBodies : v.type = "book" /\ v.tag_ids = <<>>}}

ResourceBodies == VariantBodies \cup OwnerOverrideBodies

\* The bearer tokens a caller can hold at db: those the server has had
\* occasion to issue (to a user id it made, at a time up to now), a token
\* signed with another key, and strings that are no token.
IssuedTokens(db) ==
    {create_access_token(u, t, db.utcoffset) :
        u \in 1..(db.nextId.users - 1), t \in {x \in Times : x <= db.clock}}

ForgedToken(db) == [create_access_token(1, db.clock, db.utcoffset) EXCEPT !.key = OtherKey]

BearerTokens(db) ==
    IssuedTokens(db) \cup {ForgedToken(db), MalformedToken, EmptyToken}

\* What the callers of a run send: the sign-up and profile payloads, the
\* salts drawn, the login payloads, the tag and the resource payloads.
AllInputs ==
    [users |-> UserModels, salts |-> Salts, logins |-> LoginRequests,
     tags |-> TagModels, bodies |-> ResourceBodies]

\* Callers that sign up with one password and one salt.
ResourceInputs ==
    [users |-> {u \in UserModels : u.password = "pw1"}, salts |-> {"s1"},
     logins |-> LoginRequests, tags |-> {[name |-> "rust"]},
     bodies |-> ResourceBodies]

----------------------------------------------------------------------------
(* The state machine: one request is handled at a time.                    *)

NoResponse == [op |-> "none"]

Init ==
    /\ users = <<>>
    /\ tags = <<>>
    /\ resources = <<>>
    /\ nextId = [users |-> 1, tags |-> 1, resources |-> 1]
    /\ clock = 0
    /\ resp = NoResponse
    /\ inflight = <<>>

\* uuid4 has ids left within the bounds of the model.
WithinBounds(db) ==
    /\ db.nextId.users <= MaxUsers + 1
    /\ db.nextId.tags <= MaxTags + 1
    /\ db.nextId.resources <= MaxResources + 1

\* The writes of the handler's response r are in the tables.
Written(r) ==
    /\ WithinBounds(r.db)
    /\ users' = r.db.users
    /\ tags' = r.db.tags
    /\ resources' = r.db.resources
    /\ nextId' = r.db.nextId

Handled(r) == Written(r) /\ UNCHANGED <<clock, resp, inflight>>

Login(in) ==
    \E credentials \in in.logins :
        \E user_item \in get_user_by_email(users, credentials.email) :
            Handled(login(DB, credentials, user_item))

CreateUser(in) ==
    \E user \in in.users, salt \in in.salts :
        \E existing \in get_user_by_email(users, user.email) :
            Handled(create_user(DB, user, existing, salt))

ListUsers ==
    \E token \in BearerTokens(DB) : Handled(list_users(DB, token))

GetCurrentUserInfo ==
    \E token \in BearerTokens(DB) :
        Handled(get_current_user_info(DB, token))

GetUser ==
    \E user_id \in UserIds : Handled(get_user(DB, user_id))

UpdateUser(in) ==
    \E token \in BearerTokens(DB), user_id \in UserIds, user \in in.users,
       salt \in in.salts :
        \E email_exists \in get_user_by_email(users, user.email) :
            Handled(update_user(DB, token, user_id, user, email_exists, salt))

DeleteUser ==
    \E token \in BearerTokens(DB), user_id \in UserIds :
        Handled(delete_user(DB, token, user_id))

CreateTag(in) ==
    \E token \in BearerTokens(DB), tag \in in.tags :
        Handled(create_tag(DB, token, tag))

ListTags == Handled(list_tags(DB))

CreateResource(in) ==
    \E token \in BearerTokens(DB), body \in in.bodies :
        Handled(create_resource(DB, token, body))

ListResources ==
    \E token \in BearerTokens(DB) :
        \E r \in list_resources(DB, token) : Handled(r)

GetResourcesByUser ==
    \E token \in BearerTokens(DB), user_id \in UserIds :
        \E r \in get_resources_by_user(DB, token, user_id) :
            Handled(r)

UpdateResource(in) ==
    \E token \in BearerTokens(DB), resource_id \in ResourceIds,
       body \in in.bodies :
        Handled(update_resource(DB, token, resource_id, body))

DeleteResource ==
    \E token \in BearerTokens(DB), resource_id \in ResourceIds :
        Handled(delete_resource(DB, token, resource_id))

\* Time passes.
Tick ==
    /\ clock < MaxTicks * TickSeconds
    /\ clock' = clock + TickSeconds
    /\ UNCHANGED <<users, tags, resources, nextId, resp, inflight>>

\* Every endpoint, for callers that sign up with one password.
Next ==
    \/ Login(ResourceInputs)
    \/ CreateUser(ResourceInputs)
    \/ ListUsers
    \/ GetCurrentUserInfo
    \/ GetUser
    \/ UpdateUser(ResourceInputs)
    \/ DeleteUser
    \/ CreateTag(ResourceInputs)
    \/ ListTags
    \/ CreateResource(ResourceInputs)
    \/ ListResources
    \/ GetResourcesByUser
    \/ UpdateResource(ResourceInputs)
    \/ DeleteResource
    \/ Tick

Spec == Init /\ [][Next]_vars

\* The user endpoints, for every sign-up and profile payload.
UserNext ==
    \/ Login(AllInputs)
    \/ CreateUser(AllInputs)
    \/ ListUsers
    \/ GetCurrentUserInfo
    \/ GetUser
    \/ UpdateUser(AllInputs)
    \/ DeleteUser
    \/ Tick

UserSpec == Init /\ [][UserNext]_vars

----------------------------------------------------------------------------
(* The user endpoints with requests in flight: the tables are in DynamoDB, *)
(* each read and each write of a handler is one call to it, and the calls  *)
(* of the requests that workers handle at the same time interleave.        *)
(* inflight gives, per worker slot, the request the worker is in the       *)
(* middle of: its inputs, what it has read, and the call it makes next.    *)

FreeSlots == (1..MaxInflight) \ DOMAIN inflight

\* A worker goes on with request p after its first call.
Begin(p) ==
    \E k \in FreeSlots :
        /\ \A j \in FreeSlots : k <= j
        /\ inflight' = inflight @@ (k :> p)

\* The request in slot k is answered.
Finish(k) == inflight' = Restrict(inflight, DOMAIN inflight \ {k})

\* POST /users: get_user_by_email.
CreateUserLookup(in) ==
    \E user \in in.users, salt \in in.salts :
        \E existing \in get_user_by_email(users, user.email) :
            IF ~Falsy(existing)
            THEN Handled(create_user(DB, user, existing, salt))
            ELSE /\ Begin([op |-> "create_user", user |-> user, salt |-> salt,
                           existing_user_item |-> existing])
                 /\ UNCHANGED <<users, tags, resources, nextId, clock, resp>>

\* POST /users: dynamodb.create_user and the response.
CreateUserPut ==
    \E k \in DOMAIN inflight :
        /\ inflight[k].op = "create_user"
        /\ Written(create_user(DB, inflight[k].user,
                               inflight[k].existing_user_item, inflight[k].salt))
        /\ Finish(k)
        /\ UNCHANGED <<clock, resp>>

\* PUT /users/{user_id}: the get_current_user dependency.
UpdateUserAuth(in) ==
    \E token \in BearerTokens(DB), user_id \in UserIds, user \in in.users,
       salt \in in.salts :
        LET current_user == get_current_user(token, users, clock)
        IN  IF ~current_user.ok
            THEN Handled(update_user_from(DB, current_user, None, user_id,
                                          user, None, salt))
            ELSE /\ Begin([op |-> "update_user", pc |-> "get_user_by_id",
                           current_user |-> current_user, user_id |-> user_id,
                           user |-> user, salt |-> salt])
                 /\ UNCHANGED <<users, tags, resources, nextId, clock, resp>>

\* PUT /users/{user_id}: get_user_by_id of the target.
UpdateUserGet ==
    \E k \in DOMAIN inflight :
        /\ inflight[k].op = "update_user"
        /\ inflight[k].pc = "get_user_by_id"
        /\ LET existing_user_item == get_user_by_id(users, inflight[k].user_id)
           IN  IF Falsy(existing_user_item)
               THEN Finish(k)
               ELSE inflight' =
                        [inflight EXCEPT ![k] =
                            [pc |-> "get_user_by_email",
                             existing_user_item |-> existing_user_item] @@ @]
        /\ UNCHANGED <<users, tags, resources, nextId, clock, resp>>

\* PUT /users/{user_id}: get_user_by_email, when the email changes.
UpdateUserLookup ==
    \E k \in DOMAIN inflight :
        /\ inflight[k].op = "update_user"
        /\ inflight[k].pc = "get_user_by_email"
        /\ \E email_exists \in
                IF inflight[k].user.email # inflight[k].existing_user_item.email
                THEN get_user_by_email(users, inflight[k].user.email)
                ELSE {None} :
               IF ~Falsy(email_exists)
               THEN Finish(k)
               ELSE inflight' =
                        [inflight EXCEPT ![k] =
                            [pc |-> "update_user",
                             email_exists |-> email_exists] @@ @]
        /\ UNCHANGED <<users, tags, resources, nextId, clock, resp>>

\* PUT /users/{user_id}: dynamodb.update_user and the response.
UpdateUserWrite ==
    \E k \in DOMAIN inflight :
        /\ inflight[k].op = "update_user"
        /\ inflight[k].pc = "update_user"
        /\ Written(update_user_from(DB, inflight[k].current_user,
                                    inflight[k].existing_user_item,
                                    inflight[k].user_id, inflight[k].user,
                                    inflight[k].email_exists, inflight[k].salt))
        /\ Finish(k)
        /\ UNCHANGED <<clock, resp>>

ConcNext ==
    \/ CreateUserLookup(ResourceInputs)
    \/ CreateUserPut
    \/ UpdateUserAuth(ResourceInputs)
    \/ UpdateUserGet
    \/ UpdateUserLookup
    \/ UpdateUserWrite

ConcSpec == Init /\ [][ConcNext]_vars

----------------------------------------------------------------------------
(* The resource endpoints with requests in flight, for one user who signs  *)
(* up, posts and puts resources that list no tag (so the handlers make no  *)
(* tag lookup), and deletes resources and the account.  A delete is taken  *)
(* at its write.  POST and PUT go call by call: the user lookup of the     *)
(* dependency, get_resource_by_id, the write, and _resource_item_to_model. *)

OneUserInputs ==
    [users |-> {u \in UserModels : u.email = "a@x.com" /\ u.password = "pw1"},
     salts |-> {"s1"},
     logins |-> {}, tags |-> {},
     bodies |-> {b \in VariantBodies :
                   b.tag_ids = <<>> /\ b.type \in {"article", "code_snippet"}}]

\* POST /resources: the get_current_user dependency.
CreateResourceAuth(in) ==
    \E token \in BearerTokens(DB), body \in in.bodies :
        LET current_user == get_current_user(token, users, clock)
        IN  IF ~current_user.ok
            THEN Handled(create_resource_from(DB, current_user, body))
            ELSE /\ Begin([op |-> "create_resource", pc |-> "get_tags_by_ids",
                           current_user |-> current_user, body |-> body])
                 /\ UNCHANGED <<users, tags, resources, nextId, clock, resp>>

\* POST and PUT /resources: the tag ids are looked up, and the request is
\* answered 400 or goes on to its write.  No tag is ever removed, so the
\* lists that pass here pass again where the write is modelled.
TagsValidated ==
    \E k \in DOMAIN inflight :
        /\ inflight[k].pc = "get_tags_by_ids"
        /\ IF tags_rejected(tags, ResourceModelInput(inflight[k].body).tag_ids)
           THEN Finish(k)
           ELSE inflight' = [inflight EXCEPT ![k].pc = inflight[k].op]
        /\ UNCHANGED <<users, tags, resources, nextId, clock, resp>>

\* POST /resources: dynamodb.create_resource.
CreateResourcePut ==
    \E k \in DOMAIN inflight :
        /\ inflight[k].op = "create_resource"
        /\ inflight[k].pc = "create_resource"
        /\ Written(create_resource_from(DB, inflight[k].current_user,
                                        inflight[k].body))
        /\ inflight' = [inflight EXCEPT ![k].pc = "_resource_item_to_model"]
        /\ UNCHANGED <<clock, resp>>

\* PUT /resources/{resource_id}: the get_current_user dependency.
UpdateResourceAuth(in) ==
    \E token \in BearerTokens(DB), resource_id \in ResourceIds,
       body \in in.bodies :
        LET current_user == get_current_user(token, users, clock)
        IN  IF ~current_user.ok
            THEN Handled(update_resource_from(DB, current_user, None,
                                              resource_id, body))
            ELSE /\ Begin([op |-> "update_resource", pc |-> "get_resource_by_id",
                           current_user |-> current_user,
                           resource_id |-> resource_id, body |-> body])
                 /\ UNCHANGED <<users, tags, resources, nextId, clock, resp>>

\* PUT /resources/{resource_id}: get_resource_by_id and the 404, 403 checks.
UpdateResourceGet ==
    \E k \in DOMAIN inflight :
        /\ inflight[k].op = "update_resource"
        /\ inflight[k].pc = "get_resource_by_id"
        /\ LET existing_resource_item ==
                   get_resource_by_id(resources, inflight[k].resource_id)
           IN  IF \/ Falsy(existing_resource_item)
                  \/ "user_id" \notin DOMAIN existing_resource_item
                  \/ existing_resource_item.user_id
                         # inflight[k].current_user.user.user_id
               THEN Finish(k)
               ELSE inflight' =
                        [inflight EXCEPT ![k] =
                            [pc |-> "get_tags_by_ids",
                             existing_resource_item |-> existing_resource_item]
                            @@ @]
        /\ UNCHANGED <<users, tags, resources, nextId, clock, resp>>

\* PUT /resources/{resource_id}: dynamodb.update_resource.
UpdateResourceWrite ==
    \E k \in DOMAIN inflight :
        /\ inflight[k].op = "update_resource"
        /\ inflight[k].pc = "update_resource"
        /\ Written(update_resource_from(DB, inflight[k].current_user,
                                        inflight[k].existing_resource_item,
                                        inflight[k].resource_id,
                                        inflight[k].body))
        /\ inflight' = [inflight EXCEPT ![k].pc = "_resource_item_to_model"]
        /\ UNCHANGED <<clock, resp>>

\* POST and PUT /resources: _resource_item_to_model and the response.
ResourceMaterialized ==
    \E k \in DOMAIN inflight :
        /\ inflight[k].pc = "_resource_item_to_model"
        /\ Finish(k)
        /\ UNCHANGED <<users, tags, resources, nextId, clock, resp>>

ResourceConcNext ==
    \/ CreateUser(OneUserInputs)
    \/ DeleteUser
    \/ CreateResourceAuth(OneUserInputs)
    \/ TagsValidated
    \/ CreateResourcePut
    \/ UpdateResourceAuth(OneUserInputs)
    \/ UpdateResourceGet
    \/ UpdateResourceWrite
    \/ ResourceMaterialized
    \/ DeleteResource

ResourceConcSpec == Init /\ [][ResourceConcNext]_vars

----------------------------------------------------------------------------
(* Tags and resources, step by step: one user creates a tag and creates,   *)
(* updates and deletes article resources that list it or an id that is no  *)
(* tag's.                                                                  *)

TagInputs ==
    [users |-> OneUserInputs.users, salts |-> OneUserInputs.salts,
     logins |-> {}, tags |-> [name : {"rust"}],
     bodies |-> {b \in VariantBodies :
                   /\ b.type = "article"
                   /\ b.url = "http://x"
                   /\ Len(b.tag_ids) <= 1}]

TagConcNext ==
    \/ CreateUser(TagInputs)
    \/ DeleteUser
    \/ CreateTag(TagInputs)
    \/ CreateResourceAuth(TagInputs)
    \/ TagsValidated
    \/ CreateResourcePut
    \/ UpdateResourceAuth(TagInputs)
    \/ UpdateResourceGet
    \/ UpdateResourceWrite
    \/ ResourceMaterialized
    \/ DeleteResource

TagConcSpec == Init /\ [][TagConcNext]_vars

----------------------------------------------------------------------------
(* Token verification on the tokens a caller can present: any payload,     *)
(* signed with the server's key or another, and the strings that are no    *)
(* token.  resp is the call made last and what it gave.                    *)

TokenTimes == {n * TickSeconds : n \in 0..(MaxTicks + 1)}

PresentedTokens ==
    [form : {"jwt"}, key : {ServerKey, OtherKey}, sub : {NoSub} \cup UserIds,
     exp : TokenTimes, iat : TokenTimes]
    \cup {MalformedToken, EmptyToken}

\* verify_token(token) at the server's clock.
VerifyToken ==
    \E token \in PresentedTokens :
        /\ resp' = [op |-> "verify_token", token |-> token, now |-> clock,
                    result |-> verify_token(token, clock)]
        /\ UNCHANGED <<users, tags, resources, nextId, clock, inflight>>

\* GET /users/me with the token as the bearer credentials.
GetMe ==
    \E token \in PresentedTokens :
        /\ resp' = [op |-> "get_current_user_info", token |-> token,
                    now |-> clock,
                    status |-> get_current_user_info(DB, token).status,
                    body |-> get_current_user_info(DB, token).body]
        /\ UNCHANGED <<users, tags, resources, nextId, clock, inflight>>

VerifyNext ==
    \/ CreateUser(ResourceInputs)
    \/ Tick
    \/ VerifyToken
    \/ GetMe

VerifySpec == Init /\ [][VerifyNext]_vars

----------------------------------------------------------------------------
(* Tag resolution and materialization on the records the tables can hold:  *)
(* a user, the tags, and a resource as dynamodb.create_resource stores it, *)
(* whose tag-id list may name ids that the tags table has no item of.      *)

StoredUser ==
    create_user_item(1, [first_name |-> "Ann", last_name |-> "Lee",
                         email |-> "a@x.com",
                         password |-> hash_password("pw1", "s1")])

StoredTags(ids) == [i \in ids |-> create_tag_item(i, [name |-> "rust"])]

StoredResources ==
    {create_resource_item(1, [user_id |-> 1] @@ ResourceModelInput(body), t) :
        body \in VariantBodies, t \in Times}

MaterializeInit ==
    /\ users = put_item(<<>>, 1, StoredUser)
    /\ \E ids \in SUBSET TagIds :
           /\ tags = StoredTags(ids)
           /\ nextId = [users |-> 2, tags |-> Cardinality(ids) + 1, resources |-> 2]
    /\ clock \in Times
    /\ \E resource_item \in StoredResources :
           /\ fromisoformat(resource_item.created_at).datetime <= clock
           /\ resources = put_item(<<>>, 1, resource_item)
    /\ resp = NoResponse
    /\ inflight = <<>>

\* dynamodb.get_tags_by_ids(tag_ids)
GetTagsByIds ==
    \E tag_ids \in TagIdLists :
        /\ resp' = [op |-> "get_tags_by_ids", tag_ids |-> tag_ids,
                    result |-> get_tags_by_ids(tags, tag_ids)]
        /\ UNCHANGED <<users, tags, resources, nextId, clock, inflight>>

\* _resource_item_to_model on a resource read from the table.
Materialize ==
    \E resource_id \in DOMAIN resources :
        LET resource_item == get_resource_by_id(resources, resource_id)
        IN  /\ resp' = [op |-> "_resource_item_to_model",
                        resource_item |-> resource_item,
                        result |-> resource_item_to_model(resource_item,
                                                          users, tags)]
            /\ UNCHANGED <<users, tags, resources, nextId, clock, inflight>>

MaterializeNext ==
    \/ GetTagsByIds
    \/ Materialize

MaterializeSpec == MaterializeInit /\ [][MaterializeNext]_vars

----------------------------------------------------------------------------
(* Listings over tables in which an owner may be gone: up to two users,    *)
(* and up to two resources, resource i created by user i before the users  *)
(* now missing were deleted.                                               *)

StoredUserOf(i) ==
    create_user_item(i, [first_name |-> "Ann", last_name |-> "Lee",
                         email |-> IF i = 1 THEN "a@x.com" ELSE "b@x.com",
                         password |-> hash_password("pw1", "s1")])

OwnedResources(i) ==
    {create_resource_item(i, [user_id |-> i] @@ ResourceModelInput(body), 0) :
        body \in {b \in VariantBodies : b.tag_ids = <<>>}}

OrphanInit ==
    /\ \E ids \in SUBSET {1, 2} : users = [i \in ids |-> StoredUserOf(i)]
    /\ tags = <<>>
    /\ \E ids \in SUBSET {1, 2} :
           /\ ids # {}
           /\ resources \in [ids -> UNION {OwnedResources(i) : i \in ids}]
           /\ \A i \in ids : resources[i] \in OwnedResources(i)
    /\ nextId = [users |-> 3, tags |-> 1, resources |-> 3]
    /\ clock \in Times
    /\ resp = NoResponse
    /\ inflight = <<>>

\* GET /resources, and the answer.
ListResourcesAnswered ==
    \E token \in BearerTokens(DB) :
        \E r \in list_resources(DB, token) :
            /\ resp' = [op |-> "list_resources", token |-> token,
                        status |-> r.status, body |-> r.body]
            /\ UNCHANGED <<users, tags, resources, nextId, clock, inflight>>

\* GET /resources/user/{user_id}, and the answer.
GetResourcesByUserAnswered ==
    \E token \in BearerTokens(DB), user_id \in {1, 2} :
        \E r \in get_resources_by_user(DB, token, user_id) :
            /\ resp' = [op |-> "get_resources_by_user", token |-> token,
                        user_id |-> user_id,
                        status |-> r.status, body |-> r.body]
            /\ UNCHANGED <<users, tags, resources, nextId, clock, inflight>>

OrphanNext ==
    \/ Materialize
    \/ ListResourcesAnswered
    \/ GetResourcesByUserAnswered

OrphanSpec == OrphanInit /\ [][OrphanNext]_vars

----------------------------------------------------------------------------
(* Requests handled while DynamoDB is unreachable: every call of the       *)
(* adapter raises.  resp is the request and its answer.                    *)

\* GET /users/me; the user lookup of get_current_user raises.
GetMeDuringOutage ==
    \E token \in PresentedTokens :
        LET r == get_current_user_info_from(
                     DB, get_current_user_from(verify_token(token, clock),
                                               StorageError))
        IN  /\ resp' = [op |-> "get_current_user_info", storage |-> "down",
                        token |-> token, now |-> clock,
                        status |-> r.status, body |-> r.body]
            /\ UNCHANGED <<users, tags, resources, nextId, clock, inflight>>

\* GET /users/{user_id}; get_user_by_id raises.
GetUserDuringOutage ==
    \E user_id \in UserIds :
        LET r == get_user_from(DB, StorageError)
        IN  /\ resp' = [op |-> "get_user", storage |-> "down",
                        user_id |-> user_id, now |-> clock,
                        status |-> r.status, body |-> r.body]
            /\ UNCHANGED <<users, tags, resources, nextId, clock, inflight>>

OutageNext ==
    \/ CreateUser(ResourceInputs)
    \/ Tick
    \/ GetMeDuringOutage
    \/ GetUserDuringOutage

OutageSpec == Init /\ [][OutageNext]_vars

----------------------------------------------------------------------------
(* Tokens from issue to verification, hour by hour, on servers in UTC and  *)
(* in time zones east and west of it.  resp records the last response, the *)
(* time zone of the server that gave it, and the time a token was issued.  *)

UtcOffsets == {-2 * 3600, 0, 3600}

\* The time zone of the server: set when the process starts.
ServerUtcOffsets ==
    IF "utcoffset" \in DOMAIN resp THEN {resp.utcoffset} ELSE UtcOffsets

Server(utcoffset) == [DB EXCEPT !.utcoffset = utcoffset]

\* POST /users, answered.
SignupAnswered ==
    \E user \in ResourceInputs.users, salt \in ResourceInputs.salts,
       utcoffset \in ServerUtcOffsets :
        \E existing \in get_user_by_email(users, user.email) :
            LET r == create_user(Server(utcoffset), user, existing, salt)
            IN  /\ Written(r)
                /\ resp' = [op |-> "create_user", utcoffset |-> utcoffset,
                            now |-> clock, status |-> r.status, body |-> r.body]
                /\ UNCHANGED <<clock, inflight>>

\* POST /users/login, answered.
LoginAnswered ==
    \E credentials \in ResourceInputs.logins, utcoffset \in ServerUtcOffsets :
        \E user_item \in get_user_by_email(users, credentials.email) :
            LET r == login(Server(utcoffset), credentials, user_item)
            IN  /\ resp' = [op |-> "login", utcoffset |-> utcoffset,
                            now |-> clock, status |-> r.status, body |-> r.body]
                /\ UNCHANGED <<users, tags, resources, nextId, clock, inflight>>

\* verify_token on the token of the last signup or login, at the server's
\* clock.
VerifyIssued ==
    /\ \/ resp.op \in {"create_user", "login"} /\ resp.status \in {200, 201}
       \/ resp.op = "verify_token"
    /\ LET token == IF resp.op = "verify_token" THEN resp.token
                    ELSE resp.body.token
           issued_at == IF resp.op = "verify_token" THEN resp.issued_at
                        ELSE resp.now
       IN  resp' = [op |-> "verify_token", utcoffset |-> resp.utcoffset,
                    token |-> token, issued_at |-> issued_at, now |-> clock,
                    result |-> verify_token(token, clock)]
    /\ UNCHANGED <<users, tags, resources, nextId, clock, inflight>>

\* An hour passes.
HourPasses ==
    /\ clock < MaxHours * 3600
    /\ clock' = clock + 3600
    /\ UNCHANGED <<users, tags, resources, nextId, resp, inflight>>

TokenNext ==
    \/ SignupAnswered
    \/ LoginAnswered
    \/ VerifyIssued
    \/ HourPasses

TokenSpec == Init /\ [][TokenNext]_vars

----------------------------------------------------------------------------
(* The storage adapter's updates called directly, with dicts that leave    *)
(* fields out, carry None, or carry the primary key, one call on each      *)
(* stored state.  resp records the call, the item stored before it, and    *)
(* the item returned.                                                      *)

\* The dicts that carry some of the keys of the dicts of a set.
PartialDicts(dicts) ==
    UNION {{Restrict(d, keys) : keys \in SUBSET DOMAIN d} : d \in dicts}

UserUpdates ==
    PartialDicts([user_id : UserIds,
                  first_name : {NULL, "Bob"},
                  email : {NULL, "c@x.com"}])

ResourceUpdates ==
    PartialDicts([resource_id : {1, 2},
                  title : {NULL, "Z"},
                  url : {NULL, "https://z"},
                  tag_ids : {<<>>, <<1>>}])

\* dynamodb.update_user(user_id, user_data)
UpdateUserCalled ==
    \E user_id \in UserIds, user_data \in UserUpdates :
        /\ resp = NoResponse
        /\ users' = update_user_table(users, user_id, user_data)
        /\ resp' = [op |-> "update_user", key |-> user_id, data |-> user_data,
                    before |-> get_user_by_id(users, user_id),
                    result |-> update_user_item(users, user_id, user_data)]
        /\ UNCHANGED <<tags, resources, nextId, clock, inflight>>

\* dynamodb.update_resource(resource_id, resource_data)
UpdateResourceCalled ==
    \E resource_id \in {1, 2}, resource_data \in ResourceUpdates :
        /\ resp = NoResponse
        /\ resources' = update_resource_table(resources, resource_id, resource_data)
        /\ resp' = [op |-> "update_resource", key |-> resource_id,
                    data |-> resource_data,
                    before |-> get_resource_by_id(resources, resource_id),
                    result |-> update_resource_item(resources, resource_id,
                                                    resource_data)]
        /\ UNCHANGED <<users, tags, nextId, clock, inflight>>

AdapterNext ==
    \/ UpdateUserCalled
    \/ UpdateResourceCalled

AdapterSpec == MaterializeInit /\ [][AdapterNext]_vars

----------------------------------------------------------------------------
(* What the claims speak of.                                               *)

\* The caller a bearer token authenticates at the stored state.
Caller(token) == get_current_user(token, users, clock)

\* Every listed tag id is a stored tag.
AllTagsExist(tag_ids) == \A i \in DOMAIN tag_ids : tag_ids[i] \in DOMAIN tags

----------------------------------------------------------------------------
(* C1: for every stored resource R and every authenticated caller C, PUT   *)
(* and DELETE on R answer 403 and leave the stored state as it is when C   *)
(* is not R's owner; when C is the owner DELETE answers 204 and PUT, all   *)
(* its tag ids existing, answers 200.                                      *)
C1_OwnerGate ==
    \A token \in BearerTokens(DB), rid \in DOMAIN resources :
        Caller(token).ok =>
            LET isOwner == resources[rid].user_id = Caller(token).user.user_id
                deleted == delete_resource(DB, token, rid)
            IN  /\ IF isOwner THEN deleted.status = 204
                   ELSE deleted.status = 403 /\ deleted.db = DB
                /\ \A body \in ResourceBodies :
                       LET updated == update_resource(DB, token, rid, body)
                       IN  IF isOwner
                           THEN AllTagsExist(body.tag_ids) => updated.status = 200
                           ELSE updated.status = 403 /\ updated.db = DB

----------------------------------------------------------------------------
----------------------------------------------------------------------------
(* C3: under any interleaving of sign-ups and profile updates, no two     *)
(* stored user records have the same email.                                *)
C3_EmailUnique ==
    \A i, j \in DOMAIN users :
        ( /\ i # j
          /\ "email" \in DOMAIN users[i]
          /\ "email" \in DOMAIN users[j] )
        => users[i].email # users[j].email

----------------------------------------------------------------------------
\* The sign-up of a payload whose email no stored user has, and the login
\* with the same email and password on the state the sign-up leaves.
FreshEmail(user) == get_user_by_email(users, user.email) = {None}

SignedUp(user, salt) == create_user(DB, user, None, salt)

LoggedIn(user, salt, user_item) ==
    login(SignedUp(user, salt).db,
          [email |-> user.email, password |-> user.password], user_item)

(* C4: a sign-up with an email no stored user has is answered 201, and a   *)
(* login with the same email and password right after it is answered 200   *)
(* with a token whose sub is the id of the user the sign-up created.       *)
C4_LoginAfterSignup ==
    \A user \in UserModels, salt \in Salts :
        FreshEmail(user) =>
            /\ SignedUp(user, salt).status = 201
            /\ SignedUp(user, salt).body.user.id \notin DOMAIN users
            /\ SignedUp(user, salt).body.user.id \in DOMAIN SignedUp(user, salt).db.users
            /\ \A user_item \in get_user_by_email(SignedUp(user, salt).db.users,
                                                  user.email) :
                   /\ LoggedIn(user, salt, user_item).status = 200
                   /\ LoggedIn(user, salt, user_item).body.token.sub
                          = SignedUp(user, salt).body.user.id
                   /\ LoggedIn(user, salt, user_item).body.user.id
                          = SignedUp(user, salt).body.user.id

\* A user is stored, and the sign-up of another email is followed by a
\* login that gives a token of the new user's id.
C4_Witness ==
    /\ DOMAIN users # {}
    /\ \E user \in UserModels, salt \in Salts :
           /\ FreshEmail(user)
           /\ SignedUp(user, salt).body.user.id \notin DOMAIN users
           /\ \E user_item \in get_user_by_email(SignedUp(user, salt).db.users,
                                                 user.email) :
                  /\ LoggedIn(user, salt, user_item).status = 200
                  /\ LoggedIn(user, salt, user_item).body.token.sub
                         = SignedUp(user, salt).body.user.id

----------------------------------------------------------------------------
\* The Tag objects of the listed tag ids.
TagObjects(tag_ids) ==
    {TagModel(tags[tag_ids[i]].tag_id, tags[tag_ids[i]].name) : i \in DOMAIN tag_ids}

\* The variant-specific fields of a payload.
VariantFields(body) == DOMAIN body \cap {"url", "code", "author"}

(* C5: a variant payload (article with url, code_snippet with code, book   *)
(* or course with or without author) that an authenticated user creates    *)
(* with stored tag ids is answered 201 with a resource that has the        *)
(* payload's title, description, type and variant field, the user as its   *)
(* owner, and the Tag objects of the tag ids as its tags.                  *)
C5_RoundTrip ==
    \A token \in BearerTokens(DB), body \in VariantBodies :
        (Caller(token).ok /\ AllTagsExist(body.tag_ids)) =>
            LET created == create_resource(DB, token, body)
            IN  /\ created.status = 201
                /\ created.body.title = body.title
                /\ created.body.description = body.description
                /\ created.body.type = body.type
                /\ \A k \in VariantFields(body) :
                       k \in DOMAIN created.body /\ created.body[k] = body[k]
                /\ created.body.user.id = Caller(token).user.user_id
                /\ Range(created.body.tags) = TagObjects(body.tag_ids)

----------------------------------------------------------------------------
\* The updates that reach dynamodb.update_resource: the caller is
\* authenticated and owns the stored resource, and the listed tags exist.
Performed(token, rid, body) ==
    /\ Caller(token).ok
    /\ rid \in DOMAIN resources
    /\ resources[rid].user_id = Caller(token).user.user_id
    /\ AllTagsExist(body.tag_ids)

(* C6: an update of a resource with tag_ids = S that the handler carries   *)
(* out leaves S, the empty list included, as the stored tag ids of the     *)
(* resource: nothing of the previous list is kept.                         *)
C6_TagSetReplaced ==
    \A token \in BearerTokens(DB), rid \in ResourceIds, body \in ResourceBodies :
        Performed(token, rid, body) =>
            LET updated == update_resource(DB, token, rid, body)
            IN  /\ rid \in DOMAIN updated.db.resources
                /\ "tag_ids" \in DOMAIN updated.db.resources[rid]
                /\ updated.db.resources[rid].tag_ids = body.tag_ids

\* A resource stored with a tag is updated with the empty list, and is
\* stored with no tag.
C6_Witness ==
    \E token \in BearerTokens(DB), rid \in DOMAIN resources, body \in ResourceBodies :
        /\ Performed(token, rid, body)
        /\ resources[rid].tag_ids # <<>>
        /\ body.tag_ids = <<>>
        /\ update_resource(DB, token, rid, body).db.resources[rid].tag_ids = <<>>

----------------------------------------------------------------------------
(* C7: the resource a create request stores has the authenticated caller   *)
(* as user_id, whatever user_id the payload carries, and the time of the   *)
(* request as created_at; no update request of any caller changes the      *)
(* user_id or the created_at of a stored resource.                         *)
C7_OwnerAndCreatedAtFixed ==
    \A token \in BearerTokens(DB), body \in ResourceBodies :
        /\ LET created == create_resource(DB, token, body)
               rid == nextId.resources
           IN  created.db.resources # resources =>
                   /\ DOMAIN created.db.resources = DOMAIN resources \cup {rid}
                   /\ rid \notin DOMAIN resources
                   /\ Caller(token).ok
                   /\ created.db.resources[rid].user_id = Caller(token).user.user_id
                   /\ created.db.resources[rid].created_at = isoformat(clock)
                   /\ \A r \in DOMAIN resources :
                          created.db.resources[r] = resources[r]
        /\ \A rid \in ResourceIds :
               LET updated == update_resource(DB, token, rid, body)
               IN  /\ DOMAIN updated.db.resources = DOMAIN resources
                   /\ \A r \in DOMAIN resources :
                          /\ {"user_id", "created_at"}
                                 \subseteq DOMAIN updated.db.resources[r]
                          /\ updated.db.resources[r].user_id = resources[r].user_id
                          /\ updated.db.resources[r].created_at
                                 = resources[r].created_at

\* A caller creates a resource with a payload that names another user as
\* user_id, and a later update of a stored resource by its owner changes
\* the record.
C7_Witness ==
    /\ \E token \in BearerTokens(DB), body \in OwnerOverrideBodies :
           /\ Caller(token).ok
           /\ body.user_id # Caller(token).user.user_id
           /\ create_resource(DB, token, body).status = 201
    /\ clock > 0
    /\ \E token \in BearerTokens(DB), rid \in DOMAIN resources, body \in ResourceBodies :
           /\ Performed(token, rid, body)
           /\ resources[rid].created_at # isoformat(clock)
           /\ update_resource(DB, token, rid, body).db.resources # resources

----------------------------------------------------------------------------
\* The call resp records was made with a token signed with the server's key.
Signed(token) == token.form = "jwt" /\ token.key = ServerKey

(* C8: verification of a token signed with the server's key whose exp is   *)
(* not after the server's clock fails as expired; verification of a token  *)
(* signed with another key, of a malformed and of an empty token fails as  *)
(* invalid, with another message; a protected request with either token    *)
(* is answered 401 with the message of the failure.                        *)
C8_ExpiredOrInvalid ==
    /\ resp.op = "verify_token" =>
           /\ (Signed(resp.token) /\ resp.token.exp <= resp.now) =>
                  /\ ~resp.result.ok
                  /\ resp.result.error = "expired"
                  /\ resp.result.detail = "Token has expired"
           /\ ~Signed(resp.token) =>
                  /\ ~resp.result.ok
                  /\ resp.result.error = "invalid"
                  /\ resp.result.detail # "Token has expired"
    /\ resp.op = "get_current_user_info" =>
           /\ (Signed(resp.token) /\ resp.token.exp <= resp.now) =>
                  /\ resp.status = 401
                  /\ resp.body = Detail("Token has expired")
           /\ ~Signed(resp.token) =>
                  /\ resp.status = 401
                  /\ resp.body # Detail("Token has expired")
                  /\ resp.body = Detail(verify_token(resp.token, resp.now).detail)

\* A protected request with an expired token of a stored user has been
\* answered.
C8_Witness ==
    /\ resp.op = "get_current_user_info"
    /\ Signed(resp.token)
    /\ resp.token.sub \in DOMAIN users
    /\ resp.token.exp <= resp.now
    /\ resp.now > 0
    /\ resp.status = 401

(* C9: the outcome of verify_token on a token signed with the server's key *)
(* is decided by exp and the server's clock alone: the token verifies when *)
(* exp is after the clock, also with iat after the clock, and it fails as  *)
(* expired when exp is not after the clock, whatever iat is.               *)
C9_IatIgnored ==
    (resp.op = "verify_token" /\ Signed(resp.token)) =>
        /\ resp.token.exp > resp.now =>
               /\ resp.result.ok
               /\ resp.result.payload.sub = resp.token.sub
        /\ resp.token.exp <= resp.now =>
               /\ ~resp.result.ok
               /\ resp.result.error = "expired"

\* A token whose iat is after the server's clock has verified.
C9_Witness ==
    /\ resp.op = "verify_token"
    /\ Signed(resp.token)
    /\ resp.token.iat > resp.now
    /\ resp.token.exp > resp.now
    /\ resp.result.ok

----------------------------------------------------------------------------
\* The positions of a tag-id list whose id is a stored tag.
Existing(tag_ids) == {i \in DOMAIN tag_ids : tag_ids[i] \in DOMAIN tags}

----------------------------------------------------------------------------
\* The stored resources whose owner is not a stored user.
Orphans == {r \in DOMAIN resources : resources[r].user_id \notin DOMAIN users}

(* C11: materializing a resource whose owner is not a stored user fails    *)
(* with the error "User not found for resource" and gives no resource;     *)
(* a listing by an authenticated caller that comes upon such a resource    *)
(* (GET /resources, GET /resources/user/{id}) is answered with an error    *)
(* and no list of resources.                                               *)
C11_MissingOwnerFatal ==
    /\ ( /\ resp.op = "_resource_item_to_model"
         /\ resp.resource_item.user_id \notin DOMAIN users )
       => /\ ~resp.result.ok
          /\ "model" \notin DOMAIN resp.result
          /\ resp.result.status = 404
          /\ resp.result.detail = "User not found for resource"
    /\ ( /\ resp.op = "list_resources"
         /\ Caller(resp.token).ok
         /\ Orphans # {} )
       => /\ resp.status \in {404, 500}
          /\ "resources" \notin DOMAIN resp.body
    /\ ( /\ resp.op = "get_resources_by_user"
         /\ Caller(resp.token).ok
         /\ \E r \in Orphans : resources[r].user_id = resp.user_id )
       => /\ resp.status \in {404, 500}
          /\ "resources" \notin DOMAIN resp.body

\* A listing of two resources, one of them with its owner gone, has been
\* answered with the owner error.
C11_Witness ==
    /\ resp.op = "list_resources"
    /\ Caller(resp.token).ok
    /\ Cardinality(DOMAIN resources) = 2
    /\ Cardinality(Orphans) = 1
    /\ resp.status = 404
    /\ resp.body = Detail("User not found for resource")

----------------------------------------------------------------------------
(* C12: a request during which a call of the storage adapter fails is      *)
(* answered 500, never 401 or 404: GET /users/{id} whose lookup fails, and *)
(* a protected request with a verified token whose user lookup fails.      *)
C12_StorageFailureIs500 ==
    /\ resp.op = "get_user" => resp.status = 500
    /\ ( /\ resp.op = "get_current_user_info"
         /\ verify_token(resp.token, resp.now).ok
         /\ resp.token.sub # NoSub )
       => resp.status = 500

----------------------------------------------------------------------------
(* C13: DELETE /users/{id} by an authenticated caller removes the record   *)
(* of user {id} and nothing else: the other user records, every resource   *)
(* record (those of the deleted user included) and every tag record stay   *)
(* as they are; a delete that is refused changes nothing.                  *)
C13_DeleteUserNoCascade ==
    \A token \in BearerTokens(DB), user_id \in UserIds :
        LET deleted == delete_user(DB, token, user_id)
        IN  /\ deleted.db.resources = resources
            /\ deleted.db.tags = tags
            /\ deleted.db.nextId = nextId
            /\ IF Caller(token).ok /\ user_id \in DOMAIN users
               THEN /\ deleted.status = 204
                    /\ DOMAIN deleted.db.users = DOMAIN users \ {user_id}
                    /\ \A u \in DOMAIN deleted.db.users :
                           deleted.db.users[u] = users[u]
               ELSE /\ deleted.status \in {401, 404}
                    /\ deleted.db = DB

\* A user who owned a resource has been deleted, the resource and a tag are
\* stored, and another user can be deleted.
C13_Witness ==
    /\ Orphans # {}
    /\ DOMAIN tags # {}
    /\ \E token \in BearerTokens(DB), user_id \in DOMAIN users :
           delete_user(DB, token, user_id).status = 204

----------------------------------------------------------------------------
(* C14: PUT /users/{id} by an authenticated caller whose id is not {id}    *)
(* leaves the stored record of user {id} (names, email, password) as it    *)
(* is.                                                                     *)
C14_OnlyOwnProfile ==
    \A token \in BearerTokens(DB), user_id \in DOMAIN users,
       user \in UserModels, salt \in Salts :
        \A email_exists \in get_user_by_email(users, user.email) :
            (Caller(token).ok /\ Caller(token).user.user_id # user_id) =>
                LET updated == update_user(DB, token, user_id, user,
                                           email_exists, salt)
                IN  /\ user_id \in DOMAIN updated.db.users
                    /\ updated.db.users[user_id] = users[user_id]

----------------------------------------------------------------------------
(* C15: a resource id that was handed out and has no stored record (its    *)
(* record was deleted) has no record after any step of any request: an     *)
(* update whose target is gone at the time of its write creates nothing.   *)
C15_NoRecordFromUpdate ==
    [][\A id \in ResourceIds :
           (id < nextId.resources /\ id \notin DOMAIN resources)
           => id \notin DOMAIN resources']_vars

----------------------------------------------------------------------------
(* C16: a resource record that a step stores under a new id has a user_id  *)
(* that is a stored user at that step.                                     *)
C16_OwnerExistsAtCreation ==
    [][\A id \in DOMAIN resources' \ DOMAIN resources :
           "user_id" \in DOMAIN resources'[id]
           => resources'[id].user_id \in DOMAIN users]_vars

----------------------------------------------------------------------------
\* The PUT /users requests in flight that have passed their checks and have
\* their write left; the write of request k on the stored state db; and the
\* data it hands to dynamodb.update_user.
AboutToWrite ==
    {k \in DOMAIN inflight :
        inflight[k].op = "update_user" /\ inflight[k].pc = "update_user"}

WriteOf(k, db) ==
    update_user_from(db, inflight[k].current_user,
                     inflight[k].existing_user_item, inflight[k].user_id,
                     inflight[k].user, inflight[k].email_exists, inflight[k].salt)

UpdateDataOf(k) ==
    [first_name |-> inflight[k].user.first_name,
     last_name |-> inflight[k].user.last_name,
     email |-> inflight[k].user.email,
     password |-> hash_password(inflight[k].user.password, inflight[k].salt)]

(* C17: of two PUT /users/{id} requests on the same user that are in       *)
(* flight together and have passed their checks, both writes are carried   *)
(* out and answered 200, whichever is first, and the record they leave is  *)
(* the one that dynamodb.update_user gives when the two updates are        *)
(* applied one after the other, the later writer's values in every field.  *)
C17_LastWriterWins ==
    \A k1, k2 \in AboutToWrite :
        (k1 # k2 /\ inflight[k1].user_id = inflight[k2].user_id) =>
            LET id == inflight[k1].user_id
                first == WriteOf(k1, DB)
                second == WriteOf(k2, first.db)
            IN  /\ first.status = 200
                /\ second.status = 200
                /\ second.db.users =
                       update_user_table(
                           update_user_table(users, id, UpdateDataOf(k1)),
                           id, UpdateDataOf(k2))
                /\ second.db.users[id].email = inflight[k2].user.email
                /\ second.body.email = inflight[k2].user.email

\* Two requests that set different emails on the same user have both passed
\* their checks.
C17_Witness ==
    \E k1, k2 \in AboutToWrite :
        /\ k1 # k2
        /\ inflight[k1].user_id = inflight[k2].user_id
        /\ inflight[k1].user.email # inflight[k2].user.email
        /\ inflight[k1].user_id \in DOMAIN users

----------------------------------------------------------------------------
\* The fields of a user object in a response; the user objects of a
\* response of each endpoint that returns any; the hashes hash_password
\* can give.
PublicFields == {"id", "first_name", "last_name", "email"}

OwnersIn(r) ==
    IF r.status \notin {200, 201} THEN {}
    ELSE IF "resources" \in DOMAIN r.body
    THEN {m.user : m \in r.body.resources}
    ELSE {r.body.user}

UserObjects ==
    UNION {
        UNION {{r.body.user : r \in {x \in {login(DB, c, i)} : x.status = 200}} :
                  c \in LoginRequests, i \in UNION {get_user_by_email(users, e) : e \in Emails}},
        UNION {{r.body.user : r \in {x \in {create_user(DB, u, i, s) :
                                                 i \in get_user_by_email(users, u.email)} :
                                          x.status = 201}} :
                  u \in UserModels, s \in Salts},
        UNION {UNION {r.body.users : r \in {x \in {list_users(DB, t)} : x.status = 200}} :
                  t \in BearerTokens(DB)},
        UNION {{r.body : r \in {x \in {get_current_user_info(DB, t)} : x.status = 200}} :
                  t \in BearerTokens(DB)},
        UNION {{r.body : r \in {x \in {get_user(DB, id)} : x.status = 200}} :
                  id \in UserIds},
        UNION {{r.body : r \in {x \in {update_user(DB, t, id, u, i, s) :
                                            i \in get_user_by_email(users, u.email)} :
                                     x.status = 200}} :
                  t \in BearerTokens(DB), id \in UserIds, u \in UserModels, s \in Salts},
        UNION {OwnersIn(create_resource(DB, t, b)) :
                  t \in BearerTokens(DB), b \in ResourceBodies},
        UNION {OwnersIn(update_resource(DB, t, id, b)) :
                  t \in BearerTokens(DB), id \in ResourceIds, b \in ResourceBodies},
        UNION {UNION {OwnersIn(r) : r \in list_resources(DB, t)} :
                  t \in BearerTokens(DB)},
        UNION {UNION {OwnersIn(r) : r \in get_resources_by_user(DB, t, id)} :
                  t \in BearerTokens(DB), id \in UserIds}}

SaltedHashes == {hash_password(p, s) : p \in Passwords, s \in Salts}

(* C18: every user object that signup, login, the user list, GET by id,    *)
(* GET /users/me, the user update and the resource endpoints (as the owner *)
(* of a resource) can return in any reachable state has exactly the fields *)
(* id, first_name, last_name and email, the body of signup and login holds *)
(* that object and the token only, and the password of every stored user   *)
(* is the salted hash of a password, which checks against that password    *)
(* and is not the password itself.                                         *)
C18_NoPasswordInResponses ==
    /\ \A u \in UserObjects : DOMAIN u = PublicFields
    /\ \A user \in UserModels, salt \in Salts :
           \A existing \in get_user_by_email(users, user.email) :
               LET r == create_user(DB, user, existing, salt)
               IN  r.status = 201 =>
                       /\ DOMAIN r.body = {"user", "token"}
                       /\ "password" \notin DOMAIN r.body.token
                       /\ r.db.users[r.body.user.id].password
                              = hash_password(user.password, salt)
    /\ \A id \in DOMAIN users :
           /\ users[id].password \in SaltedHashes
           /\ DOMAIN users[id].password = {"salt", "hashed"}
           /\ \E p \in Passwords : verify_password(p, users[id].password)

\* A user is stored, a resource of that user is stored, and signup, login
\* and POST /resources each have a response that carries a user object.
C18_Witness ==
    /\ \E id \in DOMAIN resources :
           /\ "user_id" \in DOMAIN resources[id]
           /\ resources[id].user_id \in DOMAIN users
    /\ \E c \in LoginRequests :
           \E i \in get_user_by_email(users, c.email) :
               login(DB, c, i).status = 200
    /\ \E t \in BearerTokens(DB), b \in ResourceBodies :
           create_resource(DB, t, b).status = 201
    /\ Cardinality(UserObjects) > 1

----------------------------------------------------------------------------
\* The stored users that hold an email.
HoldersOf(email) ==
    {id \in DOMAIN users : users[id].email = email}

(* C19: in every reachable state, POST /users with an email some stored    *)
(* user holds is answered 400 and leaves the stored state as it was; PUT   *)
(* /users/{id} by an authenticated caller with an email that differs from  *)
(* user {id}'s and that another user holds is answered 400 and leaves the  *)
(* stored state as it was; and PUT /users/{id} with the email user {id}    *)
(* has is answered 200 and stores the new values.                          *)
C19_TakenEmailRejected ==
    /\ \A user \in UserModels, salt \in Salts :
           \A existing \in get_user_by_email(users, user.email) :
               HoldersOf(user.email) # {} =>
                   LET r == create_user(DB, user, existing, salt)
                   IN  r.status = 400 /\ r.db = DB
    /\ \A token \in BearerTokens(DB), user_id \in DOMAIN users,
          user \in UserModels, salt \in Salts :
           \A email_exists \in get_user_by_email(users, user.email) :
               LET r == update_user(DB, token, user_id, user, email_exists, salt)
               IN  Caller(token).ok =>
                       /\ (/\ user.email # users[user_id].email
                           /\ HoldersOf(user.email) \ {user_id} # {})
                          => (r.status = 400 /\ r.db = DB)
                       /\ user.email = users[user_id].email
                          => /\ r.status = 200
                             /\ r.db.users[user_id].password
                                    = hash_password(user.password, salt)
                             /\ r.db.users[user_id].email = user.email

\* Two users with different emails are stored and one of them is signed in:
\* a signup and an update with the other's email, and an update with the
\* user's own email and a new password, are at hand.
C19_Witness ==
    \E a, b \in DOMAIN users, token \in BearerTokens(DB) :
        /\ users[a].email # users[b].email
        /\ Caller(token).ok
        /\ Caller(token).user.user_id = a
        /\ \E user \in UserModels, salt \in Salts :
               /\ user.email = users[b].email
               /\ \E i \in get_user_by_email(users, user.email) :
                      /\ create_user(DB, user, i, salt).status = 400
                      /\ update_user(DB, token, a, user, i, salt).status = 400
        /\ \E user \in UserModels, salt \in Salts :
               /\ user.email = users[a].email
               /\ hash_password(user.password, salt) # users[a].password
               /\ \E i \in get_user_by_email(users, user.email) :
                      update_user(DB, token, a, user, i, salt).status = 200

----------------------------------------------------------------------------
(* C20: the token of a signup answered 201 or a login answered 200 at      *)
(* server time t has the user's id as sub, iat = t and exp = t + 86400;    *)
(* verify_token on it succeeds at every server time before t + 86400 and   *)
(* fails as expired at every server time after t + 86400.                  *)
C20_TokenLifetime ==
    /\ (resp.op \in {"create_user", "login"} /\ resp.status \in {200, 201}) =>
           /\ resp.body.token.sub = resp.body.user.id
           /\ resp.body.token.iat = resp.now
           /\ resp.body.token.exp = resp.now + 86400
    /\ (resp.op = "verify_token" /\ "issued_at" \in DOMAIN resp) =>
           /\ resp.now < resp.issued_at + 86400 => resp.result.ok
           /\ resp.now > resp.issued_at + 86400 =>
                  /\ ~resp.result.ok
                  /\ resp.result.error = "expired"

----------------------------------------------------------------------------
\* The keys of the dict of the recorded call that the update sets: all but
\* the primary key and those that carry None.
KeyName == IF resp.op = "update_user" THEN "user_id" ELSE "resource_id"

SetKeys == {k \in DOMAIN resp.data : k # KeyName /\ ~IsNone(resp.data, k)}

StoredNow ==
    IF resp.op = "update_user" THEN get_user_by_id(users, resp.key)
    ELSE get_resource_by_id(resources, resp.key)

(* C21: dynamodb.update_user and dynamodb.update_resource on a stored      *)
(* record return the record that is stored afterwards; in it every key of  *)
(* the dict that is not the primary key and does not carry None has the    *)
(* dict's value, and every other key of the record, the primary key        *)
(* included, has the value it had; no key is removed; and a dict with no   *)
(* such key leaves the record as it was and returns it.                    *)
C21_PartialReplacement ==
    (resp.op \in {"update_user", "update_resource"} /\ ~Falsy(resp.before)) =>
        /\ resp.result = StoredNow
        /\ DOMAIN resp.result = DOMAIN resp.before \cup SetKeys
        /\ \A k \in SetKeys : resp.result[k] = resp.data[k]
        /\ \A k \in DOMAIN resp.before \ SetKeys :
               resp.result[k] = resp.before[k]
        /\ resp.result[KeyName] = resp.key
        /\ SetKeys = {} => resp.result = resp.before

\* An update of a stored resource has been applied whose dict carries a new
\* value, a None and another primary key, and leaves a stored key out.
C21_Witness ==
    /\ resp.op = "update_resource"
    /\ ~Falsy(resp.before)
    /\ \E k \in SetKeys : resp.data[k] # Get(resp.before, k, NULL)
    /\ \E k \in DOMAIN resp.data \ {KeyName} : IsNone(resp.data, k)
    /\ KeyName \in DOMAIN resp.data
    /\ resp.data[KeyName] # resp.key
    /\ DOMAIN resp.before \ DOMAIN resp.data # {}
    /\ resp.result # resp.before

----------------------------------------------------------------------------
\* The stored state with no tag stored; the caller is the user the stored
\* resource names as its owner.
WithoutTags == [DB EXCEPT !.tags = <<>>]

IsOwner(token, rid) ==
    /\ "user_id" \in DOMAIN resources[rid]
    /\ resources[rid].user_id = Caller(token).user.user_id

(* C22: PUT /resources/{id} by an authenticated caller is answered 404     *)
(* when no resource {id} is stored, whoever calls and whatever the tag     *)
(* ids; else 403 when the caller is not the owner, with the same response  *)
(* for every list of tag ids and whichever tags are stored; else 400 when  *)
(* a listed tag id is not stored; none of the three writes.  A caller who  *)
(* is not authenticated is answered 401 whatever the resource and tags.    *)
C22_CheckOrder ==
    \A token \in BearerTokens(DB), rid \in ResourceIds, body \in ResourceBodies :
        LET r == update_resource(DB, token, rid, body)
        IN  /\ ~Caller(token).ok =>
                   /\ r.status = 401
                   /\ r.db = DB
            /\ (Caller(token).ok /\ rid \notin DOMAIN resources) =>
                   /\ r.status = 404
                   /\ r.body = Detail("Resource not found")
                   /\ r.db = DB
            /\ (/\ Caller(token).ok
                /\ rid \in DOMAIN resources
                /\ ~IsOwner(token, rid)) =>
                   /\ r.status = 403
                   /\ r.db = DB
                   /\ \A other \in ResourceBodies :
                          update_resource(DB, token, rid, other).body = r.body
                   /\ update_resource(WithoutTags, token, rid, body).status = 403
                   /\ update_resource(WithoutTags, token, rid, body).body = r.body
            /\ (/\ Caller(token).ok
                /\ rid \in DOMAIN resources
                /\ IsOwner(token, rid)
                /\ ~AllTagsExist(body.tag_ids)) =>
                   /\ r.status = 400
                   /\ r.db = DB

----------------------------------------------------------------------------
(* C23: after every step of every interleaving of requests, every tag id   *)
(* in the tag_ids of every stored resource is the id of a stored tag, and  *)
(* every tag stored before the step is stored after it with the same name. *)
C23_TagsNeverDangle ==
    [][/\ \A rid \in DOMAIN resources' :
              "tag_ids" \in DOMAIN resources'[rid] =>
                  \A i \in DOMAIN resources'[rid].tag_ids :
                      resources'[rid].tag_ids[i] \in DOMAIN tags'
       /\ \A t \in DOMAIN tags :
              /\ t \in DOMAIN tags'
              /\ tags'[t] = tags[t]]_vars

\* A resource that lists the stored tag is stored, while a request with the
\* id that is no tag's is in flight.
C23_Witness ==
    /\ \E rid \in DOMAIN resources :
           /\ resources[rid].tag_ids # <<>>
           /\ resources[rid].tag_ids[1] \in DOMAIN tags
    /\ \E k \in DOMAIN inflight :
           /\ inflight[k].pc = "get_tags_by_ids"
           /\ inflight[k].body.tag_ids = <<MissingTagId>>

----------------------------------------------------------------------------
----------------------------------------------------------------------------
\* The responses of the logins with an email no stored user has, and of the
\* logins with a stored user's email and a password that is not the one
\* the user's stored hash was made of.
UnknownEmailLogins ==
    {login(DB, c, None) : c \in {x \in LoginRequests : HoldersOf(x.email) = {}}}

WrongPasswordLogins ==
    UNION {{login(DB, c, i) :
               i \in {j \in get_user_by_email(users, c.email) :
                        \A salt \in Salts :
                            hash_password(c.password, salt) # j.password}} :
              c \in {x \in LoginRequests : HoldersOf(x.email) # {}}}

(* C25: in every reachable state, every login with an email that is not    *)
(* stored and every login with a stored email and a wrong password get the *)
(* same response: status 401, the one detail, no token, and the stored     *)
(* state as it was.                                                        *)
C25_LoginFailuresAlike ==
    \A r \in UnknownEmailLogins \cup WrongPasswordLogins :
        /\ r.status = 401
        /\ r.body = Detail("Invalid email or password")
        /\ DOMAIN r.body = {"detail"}
        /\ r.db = DB
        /\ \A q \in UnknownEmailLogins \cup WrongPasswordLogins :
               q.status = r.status /\ q.body = r.body

\* One email is stored and another is not: a login of each kind fails, and
\* the login with the stored email and its password is answered 200.
C25_Witness ==
    /\ UnknownEmailLogins # {}
    /\ WrongPasswordLogins # {}
    /\ \E c \in LoginRequests :
           \E i \in get_user_by_email(users, c.email) :
               login(DB, c, i).status = 200

----------------------------------------------------------------------------
\* The responses of the bearer-protected endpoints to a token, for every
\* input of each; and those of the endpoints that take no token, signup
\* apart.
ProtectedResponses(token) ==
    UNION {
        {list_users(DB, token), get_current_user_info(DB, token)},
        UNION {{update_user(DB, token, id, u, e, salt) :
                   e \in get_user_by_email(users, u.email)} :
                  id \in UserIds, u \in UserModels, salt \in Salts},
        {delete_user(DB, token, id) : id \in UserIds},
        {create_tag(DB, token, tag) : tag \in TagModels},
        {create_resource(DB, token, b) : b \in ResourceBodies},
        list_resources(DB, token),
        UNION {get_resources_by_user(DB, token, id) : id \in UserIds},
        {update_resource(DB, token, rid, b) :
            rid \in ResourceIds, b \in ResourceBodies},
        {delete_resource(DB, token, rid) : rid \in ResourceIds}}

OpenResponses ==
    UNION {
        UNION {{login(DB, c, i) : i \in get_user_by_email(users, c.email)} :
                  c \in LoginRequests},
        {get_user(DB, id) : id \in UserIds},
        {list_tags(DB)}}

\* The requests that come with no token, or with one that does not give a
\* stored user: forged, malformed, empty, expired, or of a deleted user.
NotLive ==
    {token \in BearerTokens(DB) \cup {NoAuthorization(s) : s \in HTTPBearerStatuses} :
        ~Caller(token).ok}

(* C26: in every reachable state, every request to a bearer-protected      *)
(* endpoint that comes without a token or with a token that is forged,     *)
(* malformed, empty, expired or of a user no longer stored is answered 401 *)
(* and leaves the stored state as it was; and the endpoints that take no   *)
(* token, signup apart, leave the stored state as it was.                  *)
C26_NoMutationWithoutIdentity ==
    /\ \A token \in NotLive :
           \A r \in ProtectedResponses(token) :
               r.status = 401 /\ r.db = DB
    /\ \A r \in OpenResponses : r.db = DB

====
